---- MODULE Spec2Model ----
(***************************************************************************)
(* cpm_serial_port_action_info: one invocation of run_module().            *)
(* Python str values are sequences of one-character strings; a value of    *)
(* module.params is None or a str, tagged so that the two can be told      *)
(* apart.  The device and the network (open_url) are the environment.      *)
(***************************************************************************)
EXTENDS Integers, Sequences, FiniteSets, TLC

VARIABLES params, check_mode, result, header, protocol, ports, fullurl,
          request, response, calls, outcome, pc

vars == <<params, check_mode, result, header, protocol, ports, fullurl,
          request, response, calls, outcome, pc>>

\* ---------------------------------------------------------------- bounds
\* longest port list the inputs are drawn from
MaxPorts == 2

\* ------------------------------------------------------- python values
None == [t |-> "None"]
PyStr(s) == [t |-> "str", v |-> s]

\* ansible to_native(obj): a str is returned as it is, anything else goes
\* through str(obj) (nonstring='simplerepr'), so None becomes 'None'
to_native(x) == IF x.t = "str" THEN x.v ELSE <<"N","o","n","e">>

\* the printable ASCII characters in code order: 32..95 and 97..126
PrintableLow == <<" ","!","\"","#","$","%","&","'","(",")","*","+",",","-",".","/","0","1","2","3","4","5","6","7","8","9",":",";","<","=",">","?","@","A","B","C","D","E","F","G","H","I","J","K","L","M","N","O","P","Q","R","S","T","U","V","W","X","Y","Z","[","\\","]","^","_">>
PrintableHigh == <<"a","b","c","d","e","f","g","h","i","j","k","l","m","n","o","p","q","r","s","t","u","v","w","x","y","z","{","|","}","~">>

IndexOf(c, s) == CHOOSE i \in 1..Len(s) : s[i] = c

Ord(c) ==
    IF \E i \in 1..Len(PrintableLow) : PrintableLow[i] = c
    THEN 31 + IndexOf(c, PrintableLow)
    ELSE 96 + IndexOf(c, PrintableHigh)

\* to_bytes(s): the UTF-8 bytes of s (one byte per ASCII character)
to_bytes(s) == [i \in 1..Len(s) |-> Ord(s[i])]

B64Alphabet == <<"A","B","C","D","E","F","G","H","I","J","K","L","M","N","O","P","Q","R","S","T","U","V","W","X","Y","Z","a","b","c","d","e","f","g","h","i","j","k","l","m","n","o","p","q","r","s","t","u","v","w","x","y","z","0","1","2","3","4","5","6","7","8","9","+","/">>

B64Char(n) == B64Alphabet[n + 1]

\* base64.b64encode(bytes), decoded by to_text: 3 bytes -> 4 characters,
\* the last group padded with '='
RECURSIVE b64encode(_)
b64encode(b) ==
    IF Len(b) = 0 THEN <<>>
    ELSE IF Len(b) = 1 THEN
        LET n == b[1] * 65536
        IN  <<B64Char(n \div 262144), B64Char((n \div 4096) % 64), "=", "=">>
    ELSE IF Len(b) = 2 THEN
        LET n == b[1] * 65536 + b[2] * 256
        IN  <<B64Char(n \div 262144), B64Char((n \div 4096) % 64),
              B64Char((n \div 64) % 64), "=">>
    ELSE
        LET n == b[1] * 65536 + b[2] * 256 + b[3]
        IN  <<B64Char(n \div 262144), B64Char((n \div 4096) % 64),
              B64Char((n \div 64) % 64), B64Char(n % 64)>>
            \o b64encode(SubSeq(b, 4, Len(b)))

\* ','.join(to_native(x) for x in ports)
RECURSIVE join(_)
join(xs) ==
    IF Len(xs) = 0 THEN <<>>
    ELSE IF Len(xs) = 1 THEN to_native(xs[1])
    ELSE to_native(xs[1]) \o <<",">> \o join(Tail(xs))

\* --------------------------------------------------------------- inputs
Urls == {<<"h",":","8">>}
Usernames == {None, PyStr(<<>>), PyStr(<<"a">>), PyStr(<<"s","u","p","e","r">>)}
Passwords == {PyStr(<<"b">>), PyStr(<<"s","u","p","e","r">>)}
PortElems == {PyStr(<<"2">>), PyStr(<<"4">>), PyStr(<<"*">>), PyStr(<<"2",",","4">>)}

RECURSIVE SeqsUpTo(_, _)
SeqsUpTo(S, n) ==
    IF n = 0 THEN {<<>>}
    ELSE LET shorter == SeqsUpTo(S, n - 1)
         IN  shorter \cup {Append(s, x) : s \in shorter, x \in S}

PortLists == SeqsUpTo(PortElems, MaxPorts)

\* module.params after AnsibleModule has validated module_args: cpm_url and
\* cpm_password are required str, cpm_username is a str or absent (None),
\* port is a list of str, the three flags are bool
module_args ==
    [cpm_url : {PyStr(u) : u \in Urls},
     cpm_username : Usernames,
     cpm_password : Passwords,
     port : PortLists,
     use_https : BOOLEAN,
     validate_certs : BOOLEAN,
     use_proxy : BOOLEAN]

Unset == <<>>

Init ==
    /\ params \in module_args
    /\ check_mode \in BOOLEAN
    /\ result = [changed |-> FALSE, data |-> PyStr(<<>>)]
    /\ header = Unset
    /\ protocol = Unset
    /\ ports = Unset
    /\ fullurl = Unset
    /\ request = [sent |-> FALSE]
    /\ response = [kind |-> "none"]
    /\ calls = 0
    /\ outcome = [kind |-> "none"]
    /\ pc = "auth"

\* ------------------------------------------------------- request building
\* the Basic credentials of a username and a password
basic_auth(username, password) ==
    b64encode(to_bytes(to_native(username) \o <<":">> \o to_native(password)))

\* header_of without the token branch: Basic credentials whatever the username
header_always_basic(p) ==
    ("Content-Type" :> <<"a","p","p","l","i","c","a","t","i","o","n","/","j","s","o","n">>)
    @@ ("Authorization" :> (<<"B","a","s","i","c"," ">> \o basic_auth(p.cpm_username, p.cpm_password)))

\* lines 162-167: the header dict for the given params
header_of(p) ==
    IF Len(to_native(p.cpm_username)) > 0
    THEN ("Content-Type" :> <<"a","p","p","l","i","c","a","t","i","o","n","/","j","s","o","n">>)
         @@ ("Authorization" :> (<<"B","a","s","i","c"," ">> \o basic_auth(p.cpm_username, p.cpm_password)))
    ELSE ("Content-Type" :> <<"a","p","p","l","i","c","a","t","i","o","n","/","j","s","o","n">>)
         @@ ("X-WTI-API-KEY" :> to_native(p.cpm_password))

\* lines 169-172
protocol_of(p) == IF p.use_https = TRUE THEN <<"h","t","t","p","s",":","/","/">> ELSE <<"h","t","t","p",":","/","/">>

\* the list without the elements that repeat an earlier one
RECURSIVE Dedup(_)
Dedup(xs) ==
    IF Len(xs) = 0 THEN <<>>
    ELSE LET front == Dedup(SubSeq(xs, 1, Len(xs) - 1))
             last == xs[Len(xs)]
         IN  IF \E i \in 1..Len(front) : front[i] = last THEN front
             ELSE Append(front, last)

\* ports_of joining each distinct port once
ports_of_dedup(p) == join(Dedup(p.port))

\* lines 174-176
ports_of(p) == join(p.port)

\* fullurl_of with the /token segment put after /config
fullurl_token_last(p, proto, prts) ==
    proto \o to_native(p.cpm_url) \o <<"/","a","p","i","/","v","2","/","c","o","n","f","i","g">>
    \o (IF Len(to_native(p.cpm_username)) # 0 THEN <<>> ELSE <<"/","t","o","k","e","n">>)
    \o <<"/","s","e","r","i","a","l","p","o","r","t","s","a","c","t","i","o","n","?","p","o","r","t","s","=">> \o prts

\* fullurl_of with the credentials as the URL's userinfo
fullurl_with_credentials(p, proto, prts) ==
    proto \o to_native(p.cpm_username) \o <<":">> \o to_native(p.cpm_password) \o <<"@">>
    \o to_native(p.cpm_url) \o <<"/","a","p","i","/","v","2">>
    \o (IF Len(to_native(p.cpm_username)) # 0 THEN <<>> ELSE <<"/","t","o","k","e","n">>)
    \o <<"/","c","o","n","f","i","g","/","s","e","r","i","a","l","p","o","r","t","s","a","c","t","i","o","n","?","p","o","r","t","s","=">> \o prts

\* lines 177-178
fullurl_of(p, proto, prts) ==
    proto \o to_native(p.cpm_url) \o <<"/","a","p","i","/","v","2">>
    \o (IF Len(to_native(p.cpm_username)) # 0 THEN <<>> ELSE <<"/","t","o","k","e","n">>)
    \o <<"/","c","o","n","f","i","g","/","s","e","r","i","a","l","p","o","r","t","s","a","c","t","i","o","n","?","p","o","r","t","s","=">> \o prts

BuildHeader ==
    /\ pc = "auth"
    /\ header' = header_of(params)
    /\ pc' = "protocol"
    /\ UNCHANGED <<params, check_mode, result, protocol, ports, fullurl,
                   request, response, calls, outcome>>

SelectProtocol ==
    /\ pc = "protocol"
    /\ protocol' = protocol_of(params)
    /\ pc' = "ports"
    /\ UNCHANGED <<params, check_mode, result, header, ports, fullurl,
                   request, response, calls, outcome>>

JoinPorts ==
    /\ pc = "ports"
    /\ ports' = ports_of(params)
    /\ pc' = "url"
    /\ UNCHANGED <<params, check_mode, result, header, protocol, fullurl,
                   request, response, calls, outcome>>

BuildUrl ==
    /\ pc = "url"
    /\ fullurl' = fullurl_of(params, protocol, ports)
    /\ pc' = "open_url"
    /\ UNCHANGED <<params, check_mode, result, header, protocol, ports,
                   request, response, calls, outcome>>

\* ------------------------------------------------------------ json.loads
PyInt(n) == [t |-> "int", v |-> n]
PyBool(b) == [t |-> "bool", v |-> b]
PyList(xs) == [t |-> "list", v |-> xs]
PyDict(f) == [t |-> "dict", v |-> f]

Digits == <<"0","1","2","3","4","5","6","7","8","9">>
IsDigit(c) == \E i \in 1..Len(Digits) : Digits[i] = c
DigitVal(c) == IndexOf(c, Digits) - 1

ParseFail == [ok |-> FALSE]
ParseOk(val, pos) == [ok |-> TRUE, val |-> val, pos |-> pos]

\* the first position at or after i that holds no whitespace
RECURSIVE SkipWs(_, _)
SkipWs(s, i) == IF i <= Len(s) /\ s[i] = " " THEN SkipWs(s, i + 1) ELSE i

StartsWith(s, i, word) ==
    /\ i + Len(word) - 1 <= Len(s)
    /\ SubSeq(s, i, i + Len(word) - 1) = word

\* the digits from position i on, as [val, pos]
RECURSIVE ScanDigits(_, _, _)
ScanDigits(s, i, acc) ==
    IF i <= Len(s) /\ IsDigit(s[i])
    THEN ScanDigits(s, i + 1, acc * 10 + DigitVal(s[i]))
    ELSE [val |-> acc, pos |-> i]

\* an integer: -?(0|[1-9][0-9]*)
ParseInt(s, i) ==
    LET neg == i <= Len(s) /\ s[i] = "-"
        j == IF neg THEN i + 1 ELSE i
    IN  IF j > Len(s) \/ ~IsDigit(s[j]) THEN ParseFail
        ELSE IF s[j] = "0" THEN ParseOk(PyInt(0), j + 1)
        ELSE LET d == ScanDigits(s, j, 0)
             IN  ParseOk(PyInt(IF neg THEN 0 - d.val ELSE d.val), d.pos)

\* the position of the quote closing the string whose text begins at i,
\* 0 if there is none
RECURSIVE ClosingQuote(_, _)
ClosingQuote(s, i) ==
    IF i > Len(s) \/ s[i] = "\\" THEN 0
    ELSE IF s[i] = "\"" THEN i
    ELSE ClosingQuote(s, i + 1)

\* a string without escapes, s[i] being its opening quote
ParseString(s, i) ==
    LET q == ClosingQuote(s, i + 1)
    IN  IF q = 0 THEN ParseFail
        ELSE ParseOk(PyStr(SubSeq(s, i + 1, q - 1)), q + 1)

RECURSIVE ParseValue(_, _)
RECURSIVE ParseElements(_, _, _)
RECURSIVE ParseMembers(_, _, _)

\* the elements of an array from position i on, up to its ']'
ParseElements(s, i, acc) ==
    LET r == ParseValue(s, i)
        j == SkipWs(s, r.pos)
    IN  IF ~r.ok THEN ParseFail
        ELSE IF j > Len(s) THEN ParseFail
        ELSE IF s[j] = "]" THEN ParseOk(PyList(Append(acc, r.val)), j + 1)
        ELSE IF s[j] = "," THEN ParseElements(s, SkipWs(s, j + 1), Append(acc, r.val))
        ELSE ParseFail

\* the members of an object from position i on, up to its '}'; a key
\* given twice keeps its last value
ParseMembers(s, i, acc) ==
    IF i > Len(s) \/ s[i] # "\"" THEN ParseFail
    ELSE
    LET k == ParseString(s, i)
        c == SkipWs(s, k.pos)
        r == ParseValue(s, SkipWs(s, c + 1))
        j == SkipWs(s, r.pos)
        d == (k.val.v :> r.val) @@ acc
    IN  IF ~k.ok THEN ParseFail
        ELSE IF c > Len(s) \/ s[c] # ":" THEN ParseFail
        ELSE IF ~r.ok THEN ParseFail
        ELSE IF j > Len(s) THEN ParseFail
        ELSE IF s[j] = "}" THEN ParseOk(PyDict(d), j + 1)
        ELSE IF s[j] = "," THEN ParseMembers(s, SkipWs(s, j + 1), d)
        ELSE ParseFail

ParseValue(s, i) ==
    IF i > Len(s) THEN ParseFail
    ELSE IF s[i] = "\"" THEN ParseString(s, i)
    ELSE IF s[i] = "[" THEN
        LET j == SkipWs(s, i + 1)
        IN  IF j <= Len(s) /\ s[j] = "]" THEN ParseOk(PyList(<<>>), j + 1)
            ELSE ParseElements(s, j, <<>>)
    ELSE IF s[i] = "{" THEN
        LET j == SkipWs(s, i + 1)
        IN  IF j <= Len(s) /\ s[j] = "}" THEN ParseOk(PyDict(<<>>), j + 1)
            ELSE ParseMembers(s, j, <<>>)
    ELSE IF StartsWith(s, i, <<"n","u","l","l">>) THEN ParseOk(None, i + 4)
    ELSE IF StartsWith(s, i, <<"t","r","u","e">>) THEN ParseOk(PyBool(TRUE), i + 4)
    ELSE IF StartsWith(s, i, <<"f","a","l","s","e">>) THEN ParseOk(PyBool(FALSE), i + 5)
    ELSE ParseInt(s, i)

\* json.loads(body): [ok, val]; not ok stands for the ValueError raised on
\* a body that is no JSON document
json_loads(body) ==
    LET r == ParseValue(body, SkipWs(body, 1))
    IN  IF r.ok /\ SkipWs(body, r.pos) > Len(body)
        THEN [ok |-> TRUE, val |-> r.val]
        ELSE [ok |-> FALSE]

\* ------------------------------------------------------------ environment
\* bodies the device may answer with
Bodies ==
    {<<"[","{","\"","p","o","r","t","\"",":","2",",","\"","c","o","n","n","s","t","a","t","u","s","\"",":","\"","F","r","e","e","\"","}","]">>,
     <<"[","]">>,
     <<"{","\"","p","o","r","t","s","\"",":"," ","[","{","\"","p","o","r","t","\"",":","4",",","\"","c","o","n","n","s","t","a","t","u","s","\"",":","\""," ","C","-","0","6","\"","}","]","}">>,
     <<"2">>,
     <<" ","{","\"","a","\"",":","1",",","\"","a","\"",":","t","r","u","e","}"," ">>,
     <<>>,
     <<"<","h","t","m","l",">">>,
     <<"[","2",",">>,
     <<"[","2","]","x">>}

\* the exception classes open_url raises that run_module names, each with
\* the classes it is an instance of
ExcClasses == {"HTTPError", "URLError", "SSLValidationError", "ConnectionError"}

Bases(cls) ==
    CASE cls = "HTTPError" -> {"HTTPError", "URLError"}
      [] cls = "URLError" -> {"URLError"}
      [] cls = "SSLValidationError" -> {"SSLValidationError", "ConnectionError"}
      [] cls = "ConnectionError" -> {"ConnectionError"}

isinstance(cls, base) == base \in Bases(cls)

\* to_native(e) of the exception raised
ErrorText(cls) == IF cls = "HTTPError" THEN <<"H","T","T","P"," ","E","r","r","o","r"," ","5","0","0">> ELSE <<"t","i","m","e","d"," ","o","u","t">>

\* lines 181-182: the one GET, which returns a response
OpenUrlReturns ==
    /\ pc = "open_url"
    /\ calls' = calls + 1
    /\ request' = [sent |-> TRUE, url |-> fullurl, data |-> None, method |-> "GET",
                   validate_certs |-> params.validate_certs,
                   use_proxy |-> params.use_proxy, headers |-> header]
    /\ \E b \in Bodies : response' = [kind |-> "response", body |-> b]
    /\ pc' = "loads"
    /\ UNCHANGED <<params, check_mode, result, header, protocol, ports, fullurl,
                   outcome>>

\* lines 181-182: the one GET, which raises; certificates are validated
\* only on an https request with validate_certs set
OpenUrlRaises ==
    /\ pc = "open_url"
    /\ calls' = calls + 1
    /\ request' = [sent |-> TRUE, url |-> fullurl, data |-> None, method |-> "GET",
                   validate_certs |-> params.validate_certs,
                   use_proxy |-> params.use_proxy, headers |-> header]
    /\ \E c \in ExcClasses :
          /\ c = "SSLValidationError" => params.use_https /\ params.validate_certs
          /\ response' = [kind |-> "raised", exc |-> c, text |-> ErrorText(c)]
    /\ pc' = "except"
    /\ UNCHANGED <<params, check_mode, result, header, protocol, ports, fullurl,
                   outcome>>

\* ------------------------------------------------------------- outcomes
\* lines 184-195: the except clauses in the order they are written
ExceptClauses == <<"HTTPError", "URLError", "SSLValidationError", "ConnectionError">>

\* handler with the base classes' clauses written first
handler_base_first(cls) ==
    IF isinstance(cls, "URLError") THEN "URLError"
    ELSE IF isinstance(cls, "ConnectionError") THEN "ConnectionError"
    ELSE cls

\* the first except clause the raised exception is an instance of
handler(cls) ==
    LET i == CHOOSE k \in 1..Len(ExceptClauses) :
                 /\ isinstance(cls, ExceptClauses[k])
                 /\ \A m \in 1..(k - 1) : ~isinstance(cls, ExceptClauses[m])
    IN  ExceptClauses[i]

\* the literal of each clause's message up to the url
msg_prefix(clause) ==
    CASE clause = "HTTPError" -> <<"G","E","T",":"," ","R","e","c","e","i","v","e","d"," ","H","T","T","P"," ","e","r","r","o","r"," ","f","o","r"," ">>
      [] clause = "URLError" -> <<"G","E","T",":"," ","F","a","i","l","e","d"," ","l","o","o","k","u","p"," ","u","r","l"," ","f","o","r"," ">>
      [] clause = "SSLValidationError" -> <<"G","E","T",":"," ","E","r","r","o","r"," ","v","a","l","i","d","a","t","i","n","g"," ","t","h","e"," ","s","e","r","v","e","r","s"," ","c","e","r","t","i","f","i","c","a","t","e"," ","f","o","r"," ">>
      [] clause = "ConnectionError" -> <<"G","E","T",":"," ","E","r","r","o","r"," ","c","o","n","n","e","c","t","i","n","g"," ","t","o"," ">>

\* fail_json_of formatting the error text alone
fail_json_no_url(clause, url, text) ==
    [kind |-> "fail_json", msg |-> msg_prefix(clause) \o <<" ",":"," ">> \o text,
     changed |-> FALSE]

\* '<prefix>{0} : {1}'.format(fullurl, to_native(e)), changed=False
fail_json_of(clause, url, text) ==
    [kind |-> "fail_json", msg |-> msg_prefix(clause) \o url \o <<" ",":"," ">> \o text,
     changed |-> FALSE]

\* lines 184-195: the matching clause calls module.fail_json, which exits
Except ==
    /\ pc = "except"
    /\ outcome' = fail_json_of(handler(response.exc), fullurl, response.text)
    /\ pc' = "done"
    /\ UNCHANGED <<params, check_mode, result, header, protocol, ports, fullurl,
                   request, response, calls>>

\* line 197: the body decodes and is stored in result['data']
JsonLoads ==
    /\ pc = "loads"
    /\ json_loads(response.body).ok
    /\ result' = [result EXCEPT !.data = json_loads(response.body).val]
    /\ pc' = "exit"
    /\ UNCHANGED <<params, check_mode, header, protocol, ports, fullurl,
                   request, response, calls, outcome>>

\* line 197: json.loads raises, nothing catches it and the module dies
\* with a traceback
JsonLoadsRaises ==
    /\ pc = "loads"
    /\ ~json_loads(response.body).ok
    /\ outcome' = [kind |-> "traceback", exc |-> "ValueError"]
    /\ pc' = "done"
    /\ UNCHANGED <<params, check_mode, result, header, protocol, ports, fullurl,
                   request, response, calls>>

\* exit_json_of reporting a change
exit_json_changed(res) == [kind |-> "exit_json", changed |-> TRUE, data |-> res.data]

\* module.exit_json(**result)
exit_json_of(res) == [kind |-> "exit_json", changed |-> res.changed, data |-> res.data]

\* line 199
ExitJson ==
    /\ pc = "exit"
    /\ outcome' = exit_json_of(result)
    /\ pc' = "done"
    /\ UNCHANGED <<params, check_mode, result, header, protocol, ports, fullurl,
                   request, response, calls>>

Next ==
    \/ BuildHeader
    \/ SelectProtocol
    \/ JoinPorts
    \/ BuildUrl
    \/ OpenUrlReturns
    \/ OpenUrlRaises
    \/ Except
    \/ JsonLoads
    \/ JsonLoadsRaises
    \/ ExitJson

Spec == Init /\ [][Next]_vars

\* ------------------------------------------------------ claim vocabulary
\* sub occurs in s
Contains(s, sub) ==
    \E i \in 0..(Len(s) - Len(sub)) : SubSeq(s, i + 1, i + Len(sub)) = sub

\* the number of positions of s that hold c
Count(s, c) == Cardinality({i \in 1..Len(s) : s[i] = c})

\* the lengths of the first k elements of xs, each followed by a separator
RECURSIVE Offset(_, _)
Offset(xs, k) == IF k = 0 THEN 0 ELSE Offset(xs, k - 1) + Len(xs[k].v) + 1

IsStr(x) == x.t = "str"
PortsJoined == pc \notin {"auth", "protocol", "ports"}
UrlBuilt == pc \notin {"auth", "protocol", "ports", "url"}
Failed == pc = "done" /\ response.kind = "raised"
Credentialed == IsStr(params.cpm_username) /\ Len(params.cpm_username.v) > 0
EmptyUsername == IsStr(params.cpm_username) /\ Len(params.cpm_username.v) = 0
PathCredentialed == <<"/","a","p","i","/","v","2","/","c","o","n","f","i","g","/","s","e","r","i","a","l","p","o","r","t","s","a","c","t","i","o","n">>
PathToken == <<"/","a","p","i","/","v","2","/","t","o","k","e","n","/","c","o","n","f","i","g","/","s","e","r","i","a","l","p","o","r","t","s","a","c","t","i","o","n">>

\* C1: every request that reaches the GET carries Content-Type:
\* application/json; with a non-empty username it carries Authorization:
\* Basic base64(username:password) and no X-WTI-API-KEY, with an empty
\* username it carries X-WTI-API-KEY: password and no Authorization.
C1_AuthHeaders ==
    request.sent =>
        LET h == request.headers
            u == params.cpm_username
            pw == params.cpm_password.v
        IN  /\ "Content-Type" \in DOMAIN h
            /\ h["Content-Type"] = <<"a","p","p","l","i","c","a","t","i","o","n","/","j","s","o","n">>
            /\ Credentialed =>
                  /\ "Authorization" \in DOMAIN h
                  /\ "X-WTI-API-KEY" \notin DOMAIN h
                  /\ h["Authorization"]
                         = <<"B","a","s","i","c"," ">> \o b64encode(to_bytes(u.v \o <<":">> \o pw))
                  /\ (u.v = <<"a">> /\ pw = <<"b">>)
                         => h["Authorization"] = <<"B","a","s","i","c"," ","Y","T","p","i">>
                  /\ (u.v = <<"a">> /\ pw = <<"s","u","p","e","r">>)
                         => h["Authorization"] = <<"B","a","s","i","c"," ","Y","T","p","z","d","X","B","l","c","g","=","=">>
                  /\ (u.v = <<"s","u","p","e","r">> /\ pw = <<"b">>)
                         => h["Authorization"] = <<"B","a","s","i","c"," ","c","3","V","w","Z","X","I","6","Y","g","=","=">>
                  /\ (u.v = <<"s","u","p","e","r">> /\ pw = <<"s","u","p","e","r">>)
                         => h["Authorization"] = <<"B","a","s","i","c"," ","c","3","V","w","Z","X","I","6","c","3","V","w","Z","X","I","=">>
            /\ EmptyUsername =>
                  /\ "X-WTI-API-KEY" \in DOMAIN h
                  /\ "Authorization" \notin DOMAIN h
                  /\ h["X-WTI-API-KEY"] = pw

C1_Witness ==
    /\ request.sent
    /\ EmptyUsername
    /\ params.cpm_password.v = <<"s","u","p","e","r">>
    /\ request.headers["X-WTI-API-KEY"] = <<"s","u","p","e","r">>

\* C2: the URL of the GET is scheme + cpm_url + path + '?ports=' + joined
\* ports; scheme is https:// exactly when use_https; path is
\* /api/v2/config/serialportsaction for a non-empty username and
\* /api/v2/token/config/serialportsaction for an empty one.
C2_Url ==
    request.sent =>
        LET scheme == IF params.use_https THEN <<"h","t","t","p","s",":","/","/">> ELSE <<"h","t","t","p",":","/","/">>
            tail == <<"?","p","o","r","t","s","=">> \o ports
            shape(path) == scheme \o params.cpm_url.v \o path \o tail
        IN  /\ request.url \in {shape(PathCredentialed), shape(PathToken)}
            /\ Credentialed => request.url = shape(PathCredentialed)
            /\ EmptyUsername => request.url = shape(PathToken)
            /\ ( /\ params.use_https
                 /\ params.cpm_url.v = <<"h",":","8">>
                 /\ EmptyUsername
                 /\ params.port = <<PyStr(<<"2">>), PyStr(<<"4">>)>> )
               => request.url = <<"h","t","t","p","s",":","/","/","h",":","8","/","a","p","i","/","v","2","/","t","o","k","e","n","/","c","o","n","f","i","g","/","s","e","r","i","a","l","p","o","r","t","s","a","c","t","i","o","n","?","p","o","r","t","s","=","2",",","4">>
            /\ ( /\ ~params.use_https
                 /\ params.cpm_url.v = <<"h",":","8">>
                 /\ Credentialed
                 /\ params.port = <<PyStr(<<"*">>)>> )
               => request.url = <<"h","t","t","p",":","/","/","h",":","8","/","a","p","i","/","v","2","/","c","o","n","f","i","g","/","s","e","r","i","a","l","p","o","r","t","s","a","c","t","i","o","n","?","p","o","r","t","s","=","*">>

C2_Witness ==
    /\ request.sent
    /\ EmptyUsername
    /\ request.url = <<"h","t","t","p","s",":","/","/","h",":","8","/","a","p","i","/","v","2","/","t","o","k","e","n","/","c","o","n","f","i","g","/","s","e","r","i","a","l","p","o","r","t","s","a","c","t","i","o","n","?","p","o","r","t","s","=","2",",","4">>

\* the joined value holds every element verbatim at its place, in input
\* order, a comma after each element but the last, and nothing else
JoinedVerbatim ==
    LET xs == params.port
        n == Len(xs)
    IN  /\ n = 0 => ports = <<>>
        /\ n > 0 => Len(ports) = Offset(xs, n) - 1
        /\ \A k \in 1..n :
              /\ SubSeq(ports, Offset(xs, k - 1) + 1, Offset(xs, k) - 1) = xs[k].v
              /\ k < n => ports[Offset(xs, k)] = ","

JoinExamples ==
    /\ params.port = <<PyStr(<<"2">>)>> => ports = <<"2">>
    /\ params.port = <<PyStr(<<"2">>), PyStr(<<"4">>)>> => ports = <<"2",",","4">>
    /\ params.port = <<PyStr(<<"*">>)>> => ports = <<"*">>
    /\ params.port = <<PyStr(<<"4">>), PyStr(<<"2">>)>> => ports = <<"4",",","2">>
    /\ params.port = <<PyStr(<<"2">>), PyStr(<<"2">>)>> => ports = <<"2",",","2">>

NoCommaInElements == \A k \in 1..Len(params.port) : ~Contains(params.port[k].v, <<",">>)

\* C3 (as stated): the ports value is the elements joined by ',' in input
\* order, verbatim, duplicates kept, and whenever no element contains a
\* comma the number of commas is the sequence length minus one.
C3_JoinAsStated ==
    PortsJoined =>
        /\ JoinedVerbatim
        /\ JoinExamples
        /\ NoCommaInElements => Count(ports, ",") = Len(params.port) - 1

\* C3 (amended): the ports value is the elements joined by ',' in input
\* order, verbatim, duplicates kept; for a non-empty sequence none of whose
\* elements contains a comma the number of commas is the sequence length
\* minus one, and the empty sequence gives the empty value.
C3_Join ==
    PortsJoined =>
        /\ JoinedVerbatim
        /\ JoinExamples
        /\ (NoCommaInElements /\ Len(params.port) > 0)
               => Count(ports, ",") = Len(params.port) - 1
        /\ Len(params.port) = 0 => Count(ports, ",") = 0

C3_Witness ==
    /\ PortsJoined
    /\ params.port = <<PyStr(<<"2">>), PyStr(<<"2">>)>>
    /\ ports = <<"2",",","2">>

\* C4: with cpm_username absent the request is the token-mode one: the
\* X-WTI-API-KEY header carries cpm_password, there is no Authorization
\* header and the URL path holds the /token segment.
C4_AbsentUsernameIsTokenMode ==
    (request.sent /\ params.cpm_username.t = "None") =>
        /\ "X-WTI-API-KEY" \in DOMAIN request.headers
        /\ request.headers["X-WTI-API-KEY"] = params.cpm_password.v
        /\ "Authorization" \notin DOMAIN request.headers
        /\ Contains(request.url, <<"/","a","p","i","/","v","2","/","t","o","k","e","n","/","c","o","n","f","i","g","/">>)

ExampleBody == <<"[","{","\"","p","o","r","t","\"",":","2",",","\"","c","o","n","n","s","t","a","t","u","s","\"",":","\"","F","r","e","e","\"","}","]">>
ExampleData ==
    PyList(<<PyDict((<<"p","o","r","t">> :> PyInt(2)) @@ (<<"c","o","n","n","s","t","a","t","u","s">> :> PyStr(<<"F","r","e","e">>)))>>)

\* C5: a response whose body is valid JSON ends in exit_json with
\* changed = false and data = the decoded body, whatever its shape; no
\* outcome ever carries changed = true.
C5_Success ==
    /\ (pc = "done" /\ response.kind = "response" /\ json_loads(response.body).ok) =>
          /\ outcome.kind = "exit_json"
          /\ outcome.changed = FALSE
          /\ outcome.data = json_loads(response.body).val
          /\ response.body = ExampleBody => outcome.data = ExampleData
          /\ response.body = <<"2">> => outcome.data = PyInt(2)
    /\ outcome.kind \in {"exit_json", "fail_json"} => outcome.changed = FALSE
    /\ result.changed = FALSE

C5_Witness ==
    /\ pc = "done"
    /\ response.kind = "response"
    /\ response.body = ExampleBody
    /\ outcome = [kind |-> "exit_json", changed |-> FALSE, data |-> ExampleData]

\* C6: when the GET raises one of the four errors the invocation ends in
\* fail_json: changed = false, a message holding the full request URL and
\* the error text, no data; exit_json is not produced.
C6_Failure ==
    Failed =>
        /\ outcome.kind = "fail_json"
        /\ outcome.changed = FALSE
        /\ Contains(outcome.msg, request.url)
        /\ Contains(outcome.msg, response.text)
        /\ DOMAIN outcome = {"kind", "msg", "changed"}
        /\ result.data = PyStr(<<>>)

C6_Witness ==
    /\ Failed
    /\ response.exc = "URLError"
    /\ outcome.kind = "fail_json"
    /\ Contains(outcome.msg, <<"h","t","t","p","s",":","/","/","h",":","8","/","a","p","i","/","v","2","/","c","o","n","f","i","g","/","s","e","r","i","a","l","p","o","r","t","s","a","c","t","i","o","n","?","p","o","r","t","s","=","2",",","4"," ",":"," ","t","i","m","e","d"," ","o","u","t">>)

MessageOf(cls) ==
    CASE cls = "HTTPError" -> <<"G","E","T",":"," ","R","e","c","e","i","v","e","d"," ","H","T","T","P"," ","e","r","r","o","r">>
      [] cls = "URLError" -> <<"G","E","T",":"," ","F","a","i","l","e","d"," ","l","o","o","k","u","p"," ","u","r","l">>
      [] cls = "SSLValidationError" -> <<"G","E","T",":"," ","E","r","r","o","r"," ","v","a","l","i","d","a","t","i","n","g"," ","t","h","e"," ","s","e","r","v","e","r">>
      [] cls = "ConnectionError" -> <<"G","E","T",":"," ","E","r","r","o","r"," ","c","o","n","n","e","c","t","i","n","g"," ","t","o">>

\* C7: the message is chosen by the class of the error raised: HTTPError
\* 'Received HTTP error', URLError 'Failed lookup url', SSLValidationError
\* the certificate-validation message, ConnectionError 'Error connecting
\* to'; the four messages are pairwise distinct.
C7_FourMessages ==
    Failed =>
        /\ outcome.kind = "fail_json"
        /\ StartsWith(outcome.msg, 1, MessageOf(response.exc))
        /\ \A c \in ExcClasses \ {response.exc} :
              /\ ~StartsWith(outcome.msg, 1, MessageOf(c))
              /\ outcome.msg # fail_json_of(handler(c), fullurl, response.text).msg

C7_Witness ==
    /\ Failed
    /\ response.exc = "SSLValidationError"
    /\ StartsWith(outcome.msg, 1, <<"G","E","T",":"," ","E","r","r","o","r"," ","v","a","l","i","d","a","t","i","n","g"," ","t","h","e"," ","s","e","r","v","e","r","s"," ","c","e","r","t","i","f","i","c","a","t","e"," ","f","o","r"," ","h","t","t","p","s",":","/","/">>)

\* C8: a response whose body is not valid JSON ends in the structured
\* failure outcome, a message plus changed = false.
C8_BadJsonFails ==
    (pc = "done" /\ response.kind = "response" /\ ~json_loads(response.body).ok) =>
        /\ outcome.kind = "fail_json"
        /\ outcome.changed = FALSE

\* C9: exactly one GET per invocation, check mode or not: never a second
\* call, no outcome before the call, and the invocation ends in exactly
\* one outcome, success or failure.
C9_OneCallOneOutcome ==
    /\ calls <= 1
    /\ outcome.kind # "none" => calls = 1 /\ pc = "done"
    /\ pc = "done" => calls = 1 /\ outcome.kind \in {"exit_json", "fail_json"}

\* C10: the URL and the module-built failure message are the same for
\* every value of cpm_password, and the password occurs in neither (no
\* password of the inputs occurs in a url, a port or an error text).
C10_SecretOnlyInHeader ==
    \A pw \in Passwords :
        LET p2 == [params EXCEPT !.cpm_password = pw]
            url2 == fullurl_of(p2, protocol_of(p2), ports_of(p2))
        IN  /\ UrlBuilt =>
                  /\ fullurl = url2
                  /\ ~Contains(fullurl, to_native(params.cpm_password))
            /\ request.sent => request.url = url2
            /\ outcome.kind = "fail_json" =>
                  /\ outcome.msg
                         = fail_json_of(handler(response.exc), url2, response.text).msg
                  /\ ~Contains(outcome.msg, to_native(params.cpm_password))

C10_Witness ==
    /\ pc = "done"
    /\ outcome.kind = "fail_json"
    /\ EmptyUsername
    /\ params.cpm_password = PyStr(<<"s","u","p","e","r">>)
    /\ request.headers["X-WTI-API-KEY"] = <<"s","u","p","e","r">>
    /\ request.url = <<"h","t","t","p",":","/","/","h",":","8","/","a","p","i","/","v","2","/","t","o","k","e","n","/","c","o","n","f","i","g","/","s","e","r","i","a","l","p","o","r","t","s","a","c","t","i","o","n","?","p","o","r","t","s","=","*">>
====
